---- MODULE Spec2Model ----
(***************************************************************************)
(* The activity log store of the CodeDAO dashboard SDK: AgentLogger (its   *)
(* source is listed in src/README.md) over the activity schema of          *)
(* src/src/schema.js.  The store keeps one localStorage slot holding the   *)
(* JSON text of an array of activity records, newest first.                *)
(***************************************************************************)
EXTENDS Integers, Sequences, FiniteSets, TLC

(***************************************************************************)
(* Bounds of the model.                                                    *)
(***************************************************************************)
\* The capacity the model runs with, in place of the source's 1000, so that
\* eviction is reached.
Capacity == 2

\* static MAX_ACTIVITIES
MAX_ACTIVITIES == Capacity

(***************************************************************************)
(* JavaScript values.  A number i + f/2 is kept as its integer part i and  *)
(* f \in {0, 1}, which is enough to tell integers from non-integers and to *)
(* compare against the schema's limits 0 and 1.                            *)
(***************************************************************************)
Undef == [t |-> "undefined"]
Null == [t |-> "null"]
Str(s) == [t |-> "string", s |-> s]
Num(i, f) == [t |-> "number", i |-> i, f |-> f]
Obj(o) == [t |-> "object", o |-> o]
Arr(a) == [t |-> "array", a |-> a]

EmptyObject == Obj([k \in {} |-> Null])

IsString(v) == v.t = "string"
IsNumber(v) == v.t = "number"
IsInteger(v) == v.t = "number" /\ v.f = 0
IsObject(v) == v.t = "object"
IsArray(v) == v.t = "array"

\* data.k !== undefined
HasProp(v, k) == k \in DOMAIN v.o /\ v.o[k] # Undef

(***************************************************************************)
(* JSON.  A text is either well-formed, and then stands for the value it   *)
(* denotes together with its layout (indent), or malformed.  ToJSON is the *)
(* value that JSON.stringify writes for v: a property whose value is       *)
(* undefined is omitted, an undefined array element becomes null.          *)
(***************************************************************************)
RECURSIVE ToJSON(_)
ToJSON(v) ==
  CASE v.t = "object" ->
         Obj([k \in {x \in DOMAIN v.o : v.o[x] # Undef} |-> ToJSON(v.o[k])])
    [] v.t = "array" ->
         Arr([i \in 1..Len(v.a) |-> IF v.a[i] = Undef THEN Null ELSE ToJSON(v.a[i])])
    [] OTHER -> v

JSONstringify(v, indent) == [kind |-> "json", v |-> ToJSON(v), indent |-> indent]

MalformedText == [kind |-> "malformed", s |-> "[{oops"]

\* JSON.parse: ok with the value, or a SyntaxError.
JSONparse(text) ==
  IF text.kind = "json" THEN [ok |-> TRUE, v |-> text.v] ELSE [ok |-> FALSE, v |-> Undef]

\* localStorage.getItem of a key that is not set returns null.
NoItem == [kind |-> "none"]

(***************************************************************************)
(* The activity schema (schema.js) and the validator ajv compiles from it. *)
(* Strings are opaque in the model, so each string format or pattern is    *)
(* the set of the model's strings that match it.                           *)
(***************************************************************************)
required == {"id", "timestamp", "agent", "action", "type", "status"}

properties == required \cup {"metadata"}

typeEnum ==
  {"commit", "analysis", "detection", "validation", "monitoring", "documentation",
   "security", "optimization", "refactoring", "deployment", "collaboration", "info"}

statusEnum == {"success", "processing", "error", "warning", "info"}

\* Date.prototype.toISOString of the instants of the model's clock.
ISOStrings == <<"2025-01-01T00:00:00.001Z", "2025-01-01T00:00:00.002Z">>

toISOString(t) == ISOStrings[t]

\* format: "date-time"
DateTimeStrings == {ISOStrings[i] : i \in 1..Len(ISOStrings)} \cup {"2024-06-30T12:00:00Z"}

\* pattern: "^[a-f0-9]+$"
HexStrings == {"abc123", "deadbeef"}

\* format: "uri"
UriStrings == {"https://github.com/CodeDAO-org/codedao-dashboard-sdk"}

\* type: ["number", "string"]
IsNumberOrString(v) == IsNumber(v) \/ IsString(v)

\* type: "array" with items of one type
IsArrayOfIntegers(v) == IsArray(v) /\ \A i \in 1..Len(v.a) : IsInteger(v.a[i])
IsArrayOfStrings(v) == IsArray(v) /\ \A i \in 1..Len(v.a) : IsString(v.a[i])
IsArrayOfIds(v) == IsArray(v) /\ \A i \in 1..Len(v.a) : IsNumberOrString(v.a[i])

\* minimum: 0 and maximum: 1 on the number i + f/2
AtLeastZero(v) == v.i >= 0
AtMostOne(v) == v.i < 1 \/ (v.i = 1 /\ v.f = 0)

\* properties.metadata: every recognised key that is present conforms;
\* additionalProperties: true lets every other key through.
ValidateMetadata(m) ==
  /\ IsObject(m)
  /\ HasProp(m, "commitHash") =>
       (IsString(m.o["commitHash"]) /\ m.o["commitHash"].s \in HexStrings)
  /\ HasProp(m, "filePath") => IsString(m.o["filePath"])
  /\ HasProp(m, "lineNumbers") => IsArrayOfIntegers(m.o["lineNumbers"])
  /\ HasProp(m, "duration") => (IsNumber(m.o["duration"]) /\ AtLeastZero(m.o["duration"]))
  /\ HasProp(m, "confidence") =>
       (IsNumber(m.o["confidence"]) /\ AtLeastZero(m.o["confidence"])
          /\ AtMostOne(m.o["confidence"]))
  /\ HasProp(m, "tags") => IsArrayOfStrings(m.o["tags"])
  /\ HasProp(m, "relatedActivities") => IsArrayOfIds(m.o["relatedActivities"])
  /\ HasProp(m, "repository") => IsString(m.o["repository"])
  /\ HasProp(m, "branch") => IsString(m.o["branch"])
  /\ HasProp(m, "pullRequest") => IsInteger(m.o["pullRequest"])
  /\ HasProp(m, "issue") => IsInteger(m.o["issue"])
  /\ HasProp(m, "errorMessage") => IsString(m.o["errorMessage"])
  /\ HasProp(m, "url") => (IsString(m.o["url"]) /\ m.o["url"].s \in UriStrings)

\* validate without the enum of type: any string passes as a type.
validateAnyType(v) ==
  /\ IsObject(v)
  /\ \A k \in required : HasProp(v, k)
  /\ HasProp(v, "id") => IsNumberOrString(v.o["id"])
  /\ HasProp(v, "timestamp") =>
       (IsString(v.o["timestamp"]) /\ v.o["timestamp"].s \in DateTimeStrings)
  /\ HasProp(v, "agent") => (IsString(v.o["agent"]) /\ v.o["agent"].s # "")
  /\ HasProp(v, "action") => (IsString(v.o["action"]) /\ v.o["action"].s # "")
  /\ HasProp(v, "type") => IsString(v.o["type"])
  /\ HasProp(v, "status") => (IsString(v.o["status"]) /\ v.o["status"].s \in statusEnum)
  /\ HasProp(v, "metadata") => ValidateMetadata(v.o["metadata"])
  /\ \A k \in DOMAIN v.o : k \in properties

\* validate without additionalProperties: false at the top level.
validateOpen(v) ==
  /\ IsObject(v)
  /\ \A k \in required : HasProp(v, k)
  /\ HasProp(v, "id") => IsNumberOrString(v.o["id"])
  /\ HasProp(v, "timestamp") =>
       (IsString(v.o["timestamp"]) /\ v.o["timestamp"].s \in DateTimeStrings)
  /\ HasProp(v, "agent") => (IsString(v.o["agent"]) /\ v.o["agent"].s # "")
  /\ HasProp(v, "action") => (IsString(v.o["action"]) /\ v.o["action"].s # "")
  /\ HasProp(v, "type") => (IsString(v.o["type"]) /\ v.o["type"].s \in typeEnum)
  /\ HasProp(v, "status") => (IsString(v.o["status"]) /\ v.o["status"].s \in statusEnum)
  /\ HasProp(v, "metadata") => ValidateMetadata(v.o["metadata"])

\* static validate = AgentLogger.ajv.compile(schema), applied to one candidate.
validate(v) ==
  /\ IsObject(v)
  /\ \A k \in required : HasProp(v, k)
  /\ HasProp(v, "id") => IsNumberOrString(v.o["id"])
  /\ HasProp(v, "timestamp") =>
       (IsString(v.o["timestamp"]) /\ v.o["timestamp"].s \in DateTimeStrings)
  /\ HasProp(v, "agent") => (IsString(v.o["agent"]) /\ v.o["agent"].s # "")
  /\ HasProp(v, "action") => (IsString(v.o["action"]) /\ v.o["action"].s # "")
  /\ HasProp(v, "type") => (IsString(v.o["type"]) /\ v.o["type"].s \in typeEnum)
  /\ HasProp(v, "status") => (IsString(v.o["status"]) /\ v.o["status"].s \in statusEnum)
  /\ HasProp(v, "metadata") => ValidateMetadata(v.o["metadata"])
  /\ \A k \in DOMAIN v.o : k \in properties

(***************************************************************************)
(* AgentLogger.  Every operation is a function of the slot's content and   *)
(* the call's inputs to an outcome: the slot's new content, the value      *)
(* returned (or that the call threw), and the events dispatched on window  *)
(* while the call ran.  Listeners run inside dispatchEvent, so each event  *)
(* is recorded with the slot's content at the moment of its dispatch.      *)
(***************************************************************************)
Event(type, detail, slot) == [type |-> type, detail |-> detail, snapshot |-> slot]

Outcome(slot, value, emitted) ==
  [storage |-> slot, value |-> value, threw |-> FALSE, emitted |-> emitted]

\* A value is truthy unless it is null, undefined or the number 0.
Truthy(v) == ~(v = Null \/ v = Undef \/ v = Num(0, 0))

\* Array.prototype.slice(0, n) for an integer n.
slice(a, n) ==
  IF n >= 0
    THEN SubSeq(a, 1, IF n < Len(a) THEN n ELSE Len(a))
    ELSE SubSeq(a, 1, IF Len(a) + n > 0 THEN Len(a) + n ELSE 0)

\* String.prototype.slice(0, n) of the strings a slot of the model can hold.
stringSlice(s, n) ==
  IF s = "[]"
    THEN IF n = 1 \/ n = -1 THEN "[" ELSE IF n >= 2 THEN "[]" ELSE ""
    ELSE s

\* getActivities(limit = null): the parsed content of the slot, [] when the
\* slot is unset or anything throws.  What is parsed is returned as it is:
\* nothing checks that it is an array.  With a truthy limit, slice(0, limit)
\* is called on it: an array and a string have one, on anything else the
\* call throws and [] is returned.
getActivities(stored, limit) ==
  LET parsed == JSONparse(stored)
      activities == IF stored = NoItem THEN Arr(<<>>) ELSE parsed.v
  IN  IF stored # NoItem /\ ~parsed.ok THEN Arr(<<>>)
      ELSE IF ~Truthy(limit) THEN activities
      ELSE IF IsArray(activities) THEN Arr(slice(activities.a, limit.i))
      ELSE IF IsString(activities) THEN Str(stringSlice(activities.s, limit.i))
      ELSE Arr(<<>>)

\* A parameter's default value applies when the argument is undefined.
DefaultTo(arg, default) == IF arg = Undef THEN default ELSE arg

\* A candidate whose agent and action have changed places.
activityOfSwapped(agent, action, type, status, metadata, t, r) ==
  Obj([id |-> Num(t, r),
       timestamp |-> Str(toISOString(t)),
       agent |-> action,
       action |-> agent,
       type |-> DefaultTo(type, Str("info")),
       status |-> DefaultTo(status, Str("success")),
       metadata |-> DefaultTo(metadata, EmptyObject)])

\* The candidate record log() assembles at instant t with Math.random() = r/2.
\* Date.now() and new Date() are read at the same instant.
activityOf(agent, action, type, status, metadata, t, r) ==
  Obj([id |-> Num(t, r),
       timestamp |-> Str(toISOString(t)),
       agent |-> agent,
       action |-> action,
       type |-> DefaultTo(type, Str("info")),
       status |-> DefaultTo(status, Str("success")),
       metadata |-> DefaultTo(metadata, EmptyObject)])

\* activities.push(activity): the new record at the end.
push(activities, activity) == activities \o <<activity>>

\* activities.unshift(activity)
unshift(activities, activity) == <<activity>> \o activities

\* No splice: the array keeps every element.
spliceNothing(activities) == activities

\* splice that drops from the head: keeps the MAX_ACTIVITIES last elements.
spliceHead(activities) ==
  IF Len(activities) > MAX_ACTIVITIES
    THEN SubSeq(activities, Len(activities) - MAX_ACTIVITIES + 1, Len(activities))
    ELSE activities

\* if (activities.length > MAX_ACTIVITIES) activities.splice(MAX_ACTIVITIES)
splice(activities) ==
  IF Len(activities) > MAX_ACTIVITIES
    THEN SubSeq(activities, 1, MAX_ACTIVITIES)
    ELSE activities

\* dispatchEvent before setItem: the listeners run on the slot as it was.
logCommitDispatchFirst(stored, text, activity) ==
  Outcome(text, TRUE, <<Event("codedao:activity", activity, stored)>>)

\* localStorage.setItem, then dispatchEvent('codedao:activity'), then return true.
logCommit(stored, text, activity) ==
  Outcome(text, TRUE, <<Event("codedao:activity", activity, text)>>)

\* log that warns about an invalid candidate and stores it all the same.
logWarnOnly(stored, agent, action, type, status, metadata, t, r, writable) ==
  LET activity == activityOf(agent, action, type, status, metadata, t, r)
      activities == getActivities(stored, Null)
  IN  IF ~IsArray(activities) THEN Outcome(stored, FALSE, <<>>)
      ELSE IF ~writable THEN Outcome(stored, FALSE, <<>>)
      ELSE logCommit(stored,
                     JSONstringify(Arr(splice(unshift(activities.a, activity))), 0),
                     activity)

\* log that dispatches before it writes: when setItem throws, the event has
\* gone out already.
logNotifyFirst(stored, agent, action, type, status, metadata, t, r, writable) ==
  LET activity == activityOf(agent, action, type, status, metadata, t, r)
      activities == getActivities(stored, Null)
  IN  IF ~validate(activity) THEN Outcome(stored, FALSE, <<>>)
      ELSE IF ~IsArray(activities) THEN Outcome(stored, FALSE, <<>>)
      ELSE IF ~writable
        THEN Outcome(stored, FALSE, <<Event("codedao:activity", activity, stored)>>)
      ELSE logCommit(stored,
                     JSONstringify(Arr(splice(unshift(activities.a, activity))), 0),
                     activity)

\* log(agent, action, type, status, metadata).  writable: setItem does not throw.
log(stored, agent, action, type, status, metadata, t, r, writable) ==
  LET activity == activityOf(agent, action, type, status, metadata, t, r)
      activities == getActivities(stored, Null)
  IN  IF ~validate(activity) THEN Outcome(stored, FALSE, <<>>)
      ELSE IF ~IsArray(activities) THEN Outcome(stored, FALSE, <<>>)
      ELSE IF ~writable THEN Outcome(stored, FALSE, <<>>)
      ELSE logCommit(stored,
                     JSONstringify(Arr(splice(unshift(activities.a, activity))), 0),
                     activity)

\* clear that dispatches before it removes the item.
clearDispatchFirst(stored) == Outcome(NoItem, TRUE, <<Event("codedao:cleared", Null, stored)>>)

\* clear(): removeItem, then dispatchEvent('codedao:cleared'), then return true.
clear(stored) == Outcome(NoItem, TRUE, <<Event("codedao:cleared", Null, NoItem)>>)

\* exportActivities(): JSON.stringify(this.getActivities(), null, 2)
exportActivities(stored) == JSONstringify(getActivities(stored, Null), 2)

\* No filter: the whole batch is kept.
filterNone(activities) == activities

\* activities.filter(activity => this.validate(activity))
filterValid(activities) == SelectSeq(activities, validate)

\* localStorage.setItem, then dispatchEvent('codedao:imported'), then return true.
importCommit(stored, text) ==
  Outcome(text, TRUE, <<Event("codedao:imported", Null, text)>>)

\* importActivities that merges: the valid records go in front of those held.
importActivitiesMerge(stored, jsonData, writable) ==
  LET parsed == JSONparse(jsonData)
      held == getActivities(stored, Null)
  IN  IF ~parsed.ok THEN Outcome(stored, FALSE, <<>>)
      ELSE IF ~IsArray(parsed.v) \/ ~IsArray(held) THEN Outcome(stored, FALSE, <<>>)
      ELSE IF ~writable THEN Outcome(stored, FALSE, <<>>)
      ELSE importCommit(stored, JSONstringify(Arr(filterValid(parsed.v.a) \o held.a), 0))

\* importActivities that takes anything it cannot read as an empty batch.
importActivitiesLenient(stored, jsonData, writable) ==
  LET parsed == JSONparse(jsonData)
      batch == IF parsed.ok /\ IsArray(parsed.v) THEN parsed.v.a ELSE <<>>
  IN  IF ~writable THEN Outcome(stored, FALSE, <<>>)
      ELSE importCommit(stored, JSONstringify(Arr(filterValid(batch)), 0))

\* importActivities(jsonData)
importActivities(stored, jsonData, writable) ==
  LET parsed == JSONparse(jsonData)
  IN  IF ~parsed.ok THEN Outcome(stored, FALSE, <<>>)
      ELSE IF ~IsArray(parsed.v) THEN Outcome(stored, FALSE, <<>>)
      ELSE IF ~writable THEN Outcome(stored, FALSE, <<>>)
      ELSE importCommit(stored, JSONstringify(Arr(filterValid(parsed.v.a)), 0))

\* What a read returns, or that it threw.
Returned(value) == [value |-> value, threw |-> FALSE]

Threw == [value |-> Undef, threw |-> TRUE]

\* activity.agent and the like: the property k of v, undefined when v has
\* none.  Reading a property of null or undefined throws; see Readable.
Prop(v, k) == IF IsObject(v) /\ k \in DOMAIN v.o THEN v.o[k] ELSE Undef

Readable(v) == v # Null /\ v # Undef

\* a === b for a primitive b: the same type and the same value.
StrictEquals(a, b) == a = b /\ ~IsObject(a) /\ ~IsArray(a)

\* The property key a value is turned into when it indexes an object.  (The
\* fields the model counts by are never fractional numbers.)
KeyOf(v) ==
  IF IsString(v) THEN v.s
  ELSE IF v = Undef THEN "undefined"
  ELSE IF v = Null THEN "null"
  ELSE IF IsNumber(v) THEN ToString(v.i)
  ELSE IF IsArray(v) THEN "array"
  ELSE "[object Object]"

\* activities.filter(a => a[k] === wanted)
filterBy(activities, k, wanted) ==
  LET Matches(a) == StrictEquals(Prop(a, k), wanted)
  IN  SelectSeq(activities, Matches)

\* this.getActivities().filter(a => a[k] === wanted), then
\* limit ? activities.slice(0, limit) : activities.  Nothing catches: filter
\* of what is not an array throws, and so does a property of a null element.
getActivitiesBy(stored, k, wanted, limit) ==
  LET activities == getActivities(stored, Null)
  IN  IF ~IsArray(activities) THEN Threw
      ELSE IF \E i \in 1..Len(activities.a) : ~Readable(activities.a[i]) THEN Threw
      ELSE LET filtered == filterBy(activities.a, k, wanted)
           IN  Returned(Arr(IF Truthy(limit) THEN slice(filtered, limit.i) ELSE filtered))

\* getActivitiesByAgent(agent, limit = null)
getActivitiesByAgent(stored, agent, limit) == getActivitiesBy(stored, "agent", agent, limit)

\* getActivitiesByType(type, limit = null)
getActivitiesByType(stored, type, limit) == getActivitiesBy(stored, "type", type, limit)

\* How many records getStatistics().recentActivity holds at most.
RecentLimit == 10

\* Counts that are one too many.
countByOffByOne(activities, k) ==
  [key \in {KeyOf(Prop(activities[i], k)) : i \in 1..Len(activities)} |->
     Cardinality({i \in 1..Len(activities) : KeyOf(Prop(activities[i], k)) = key}) + 1]

\* stats.byX[activity.x] = (stats.byX[activity.x] || 0) + 1 over activities
countBy(activities, k) ==
  [key \in {KeyOf(Prop(activities[i], k)) : i \in 1..Len(activities)} |->
     Cardinality({i \in 1..Len(activities) : KeyOf(Prop(activities[i], k)) = key})]

\* getStatistics(): total, byAgent, byType, byStatus and recentActivity of
\* getActivities().  Nothing catches: what is not an array has no forEach
\* (and maybe no slice), and a property of a null element cannot be read.
getStatistics(stored) ==
  LET activities == getActivities(stored, Null)
      none == [threw |-> TRUE, total |-> 0, byAgent |-> <<>>, byType |-> <<>>,
               byStatus |-> <<>>, recentActivity |-> <<>>]
  IN  IF ~IsArray(activities) THEN none
      ELSE IF \E i \in 1..Len(activities.a) : ~Readable(activities.a[i]) THEN none
      ELSE [threw |-> FALSE,
            total |-> Len(activities.a),
            byAgent |-> countBy(activities.a, "agent"),
            byType |-> countBy(activities.a, "type"),
            byStatus |-> countBy(activities.a, "status"),
            recentActivity |-> slice(activities.a, RecentLimit)]

(***************************************************************************)
(* Inputs of the calls.                                                    *)
(***************************************************************************)
\* Math.random(): 0 or 0.5.
RandomHalves == {0, 1}

\* Arguments of log(): <<agent, action, type, status, metadata>>, undefined
\* where the caller leaves an argument out.
ValidLogArgs ==
  { <<Str("Claude"), Str("Fixed syntax error"), Str("commit"), Str("success"),
      Obj([commitHash |-> Str("abc123")])>>,
    <<Str("ChatGPT"), Str("Reviewed the change"), Undef, Undef, Undef>>,
    <<Str("Claude"), Str("Scanned"), Str("security"), Str("warning"),
      Obj([duration |-> Num(1, 1), note |-> Undef])>> }

InvalidLogArgs ==
  { <<Str("Claude"), Str("Fixed syntax error"), Str("not-a-real-type"), Str("success"), Undef>>,
    <<Str(""), Str("Fixed syntax error"), Str("commit"), Str("success"), Undef>>,
    <<Str("Claude"), Str(""), Undef, Undef, Undef>>,
    <<Str("Claude"), Str("Guessed"), Str("analysis"), Str("done"),
      Obj([confidence |-> Num(2, 0)])>> }

LogArgs == ValidLogArgs \cup InvalidLogArgs

\* Elements of imported batches.
RecordA ==
  Obj([id |-> Str("a-1"), timestamp |-> Str("2024-06-30T12:00:00Z"), agent |-> Str("Copilot"),
       action |-> Str("Suggested a completion"), type |-> Str("info"),
       status |-> Str("processing")])

RecordB ==
  Obj([id |-> Num(7, 0), timestamp |-> Str("2024-06-30T12:00:00Z"), agent |-> Str("GPT-4"),
       action |-> Str("Wrote tests"), type |-> Str("validation"), status |-> Str("success"),
       metadata |-> Obj([custom |-> Str("x"), tags |-> Arr(<<Str("ci")>>)])])

\* RecordA with the id n.
Numbered(n) == Obj([RecordA.o EXCEPT !["id"] = Num(n, 0)])

MissingFields == Obj([agent |-> Str("X")])

ExtraTopLevelKey ==
  Obj([id |-> Num(8, 0), timestamp |-> Str("2024-06-30T12:00:00Z"), agent |-> Str("GPT-4"),
       action |-> Str("Wrote tests"), type |-> Str("validation"), status |-> Str("success"),
       extra |-> Str("x")])

BadTimestamp == Obj([RecordA.o EXCEPT !["timestamp"] = Str("yesterday")])

BadMetadata ==
  Obj([id |-> Num(9, 0), timestamp |-> Str("2024-06-30T12:00:00Z"), agent |-> Str("GPT-4"),
       action |-> Str("Wrote tests"), type |-> Str("validation"), status |-> Str("success"),
       metadata |-> Obj([pullRequest |-> Num(1, 1)])])

\* Well-formed batches: arrays.
ArrayBatches ==
  { Arr(<<MissingFields>>),
    Arr(<<RecordA, ExtraTopLevelKey, RecordB, Null, BadMetadata>>),
    Arr(<<BadTimestamp, RecordB, Num(1, 0), RecordA>>),
    Arr([n \in 1..(MAX_ACTIVITIES + 1) |-> Numbered(n)]),
    Arr([n \in 1..(RecentLimit + 1) |-> IF n = 1 THEN RecordB ELSE Numbered(n)]) }

\* Well-formed JSON that is not a bare array.
NonArrayValues == {Null, Num(42, 0), Str("[]"), Obj([activities |-> Arr(<<RecordA>>)])}

\* The texts handed to importActivities, besides the store's own export.
ImportTexts ==
  {JSONstringify(v, 2) : v \in ArrayBatches \cup NonArrayValues} \cup {MalformedText}

(***************************************************************************)
(* Dashboard, with the options showStats and showFilters at their default. *)
(* The dashboard is a record: its option maxActivities, whether its        *)
(* container element exists and holds the dashboard's HTML, the listeners  *)
(* it has put on window, its refreshTimer, the intervals of setInterval    *)
(* that are running, the value chosen in each of the three filter selects  *)
(* and the choices each select offers, and shown, what renderActivities    *)
(* last wrote into the page.                                               *)
(***************************************************************************)
\* options.maxActivities, when the caller gives none
maxActivities == 50

\* The listener functions: the arrow functions bindEvents registers, and
\* the method this.renderActivities.
ArrowFunction == "() => { this.renderActivities(); }"

RenderActivitiesMethod == "this.renderActivities"

StoreEvents == {"codedao:activity", "codedao:cleared"}

\* The fields the three selects filter by.
FilterFields == {"agent", "type", "status"}

\* Every select on its first option, value "".
NoFilters == [k \in FilterFields |-> ""]

\* The page shows nothing of the dashboard.
Blank == [list |-> Undef, total |-> 0]

\* No Dashboard has been constructed.
NoDashboard ==
  [constructed |-> FALSE, destroyed |-> FALSE, container |-> FALSE, html |-> FALSE,
   autoRefresh |-> FALSE, maxActivities |-> Num(maxActivities, 0),
   listeners |-> {}, refreshTimer |-> Null, intervals |-> {},
   filters |-> NoFilters, choices |-> [k \in FilterFields |-> {}],
   shown |-> Blank, ran |-> FALSE]

\* activities.filter(a => a[k] === value) for each select whose value is
\* not empty, in the order agent, type, status.
applyFilters(activities, filters) ==
  LET Matches(a) ==
        \A k \in FilterFields :
          filters[k] # "" => StrictEquals(Prop(a, k), Str(filters[k]))
  IN  SelectSeq(activities, Matches)

\* getFilteredActivities(): AgentLogger.getActivities(options.maxActivities),
\* then the filters of the selects the page has.  (Of a store that holds an
\* array of records; nothing here catches what a filter of anything else
\* throws.)
getFilteredActivities(d, slot) ==
  LET activities == getActivities(slot, d.maxActivities)
  IN  IF ~IsArray(activities) THEN activities
      ELSE IF d.html THEN Arr(applyFilters(activities.a, d.filters))
      ELSE activities

\* What renderActivities writes for the content slot of the store: the list
\* of renderActivityList and the total of renderStats.
Rendering(d, slot) ==
  [list |-> getFilteredActivities(d, slot), total |-> getStatistics(slot).total]

\* updateFilters(stats): each select offers the keys of its counts, and
\* keeps its value when that is one of them.
updateFilters(d, stats) ==
  LET keys == [agent |-> DOMAIN stats.byAgent, type |-> DOMAIN stats.byType,
               status |-> DOMAIN stats.byStatus]
  IN  [d EXCEPT !.choices = keys,
                !.filters = [k \in FilterFields |->
                               IF d.filters[k] \in keys[k] THEN d.filters[k] ELSE ""]]

\* renderActivities(): reads the store and writes the list, the stats and
\* the choices of the selects into their elements, when the page has them.
renderActivities(d, slot) ==
  IF d.html
    THEN [updateFilters(d, getStatistics(slot)) EXCEPT
            !.shown = Rendering(d, slot), !.ran = TRUE]
    ELSE [d EXCEPT !.ran = TRUE]

\* bindEvents(): an arrow function on 'codedao:activity' and one on
\* 'codedao:cleared'.
bindEvents(d) ==
  [d EXCEPT !.listeners = d.listeners \cup {<<type, ArrowFunction>> : type \in StoreEvents}]

\* setInterval: an id that no running interval has.
setInterval(intervals) ==
  CHOOSE id \in 1..(Cardinality(intervals) + 1) :
    id \notin intervals /\ \A other \in 1..(id - 1) : other \in intervals

\* startAutoRefresh(): this.refreshTimer = setInterval(...)
startAutoRefresh(d) ==
  LET id == setInterval(d.intervals)
  IN  [d EXCEPT !.refreshTimer = Num(id, 0), !.intervals = d.intervals \cup {id}]

\* stopAutoRefresh()
stopAutoRefresh(d) ==
  IF Truthy(d.refreshTimer)
    THEN [d EXCEPT !.intervals = d.intervals \ {d.refreshTimer.i}, !.refreshTimer = Null]
    ELSE d

\* new Dashboard(containerId, options): the constructor and init().
init(container, autoRefresh, max, slot) ==
  LET d == [NoDashboard EXCEPT !.constructed = TRUE, !.container = container,
                               !.autoRefresh = autoRefresh, !.maxActivities = max]
      rendered == renderActivities(bindEvents([d EXCEPT !.html = TRUE]), slot)
  IN  IF ~container THEN d
      ELSE IF autoRefresh THEN startAutoRefresh(rendered)
      ELSE rendered

\* destroy(): stopAutoRefresh, removeEventListener of this.renderActivities
\* for the two events, and the container emptied.
destroy(d) ==
  LET stopped == stopAutoRefresh(d)
  IN  [stopped EXCEPT
         !.listeners = stopped.listeners \ {<<type, RenderActivitiesMethod>> : type \in StoreEvents},
         !.html = IF stopped.container THEN FALSE ELSE stopped.html,
         !.shown = IF stopped.container THEN Blank ELSE stopped.shown,
         !.filters = IF stopped.container THEN NoFilters ELSE stopped.filters,
         !.choices = IF stopped.container THEN [k \in FilterFields |-> {}] ELSE stopped.choices,
         !.destroyed = TRUE,
         !.ran = FALSE]

\* window.dispatchEvent of the events of a call, in order: each listener of
\* the dashboard for the event's type runs, on the slot as it is then.
RECURSIVE dispatchEvent(_, _)
dispatchEvent(d, events) ==
  IF events = <<>> THEN d
  ELSE dispatchEvent(IF <<events[1].type, ArrowFunction>> \in d.listeners
                       THEN renderActivities(d, events[1].snapshot)
                       ELSE d,
                     Tail(events))

(***************************************************************************)
(* Listeners on window.  window.dispatchEvent runs the listeners of the    *)
(* event's type in the order of their registration; what a listener throws *)
(* is reported to the page's error handler and goes no further: the next   *)
(* listener runs and dispatchEvent returns to its caller.                  *)
(***************************************************************************)
\* No script has registered a listener.
NoSubscribers == [registered |-> <<>>, invoked |-> <<>>, reported |-> <<>>]

\* window.addEventListener(type, listener), of a listener that throws or not.
addEventListener(registered, type, throws) ==
  Append(registered, [id |-> Len(registered) + 1, type |-> type, throws |-> throws])

\* The ids of a sequence of listeners.
Ids(listeners) == [i \in 1..Len(listeners) |-> listeners[i].id]

\* A dispatch that stops at the first listener that throws and lets what it
\* threw reach the caller.
invokeUntilThrow(registered, events) ==
  LET OfType(l) == events # <<>> /\ l.type = events[1].type
      listeners == SelectSeq(registered, OfType)
      throwing == {i \in 1..Len(listeners) : listeners[i].throws}
      last == IF throwing = {} THEN Len(listeners)
              ELSE CHOOSE i \in throwing : \A j \in throwing : i <= j
  IN  [invoked |-> Ids(SubSeq(listeners, 1, last)),
       reported |-> <<>>,
       propagated |-> throwing # {}]

\* window.dispatchEvent(event) for the events of a call: the listeners it
\* ran, those whose exception was reported, and whether an exception reached
\* the caller.
invokeListeners(registered, events) ==
  LET OfType(l) == events # <<>> /\ l.type = events[1].type
      Throws(l) == l.throws
      listeners == SelectSeq(registered, OfType)
  IN  [invoked |-> Ids(listeners),
       reported |-> Ids(SelectSeq(listeners, Throws)),
       propagated |-> FALSE]

\* The catch of log, clear and importActivities: an exception out of
\* dispatchEvent makes the call return false.
caught(out, delivery) ==
  IF delivery.propagated THEN [out EXCEPT !.value = FALSE] ELSE out

(***************************************************************************)
(* The state.  storage and now are the program's; the rest records what    *)
(* the properties speak of: the last call with its outcome, and the run of *)
(* appends made since the collection was last replaced.                    *)
(***************************************************************************)
VARIABLES
  storage,    \* localStorage[STORAGE_KEY]: NoItem or a text
  now,        \* Date.now()
  lastOp,     \* the last call made on the store and its inputs
  result,     \* what that call returned: [value, threw]
  emitted,    \* the events dispatched while that call ran
  recent,     \* the records appended since the collection was last replaced:
              \* the MAX_ACTIVITIES latest of them, newest first
  run,        \* how many they are, counted up to MAX_ACTIVITIES + 1
  fromEmpty,  \* the collection was empty when that run started
  dashboard,  \* the Dashboard of the page: what it is bound to and what it shows
  subscribers \* the listeners scripts of the page have put on window, in the
              \* order of their registration, and those the last call reached

vars ==
  <<storage, now, lastOp, result, emitted, recent, run, fromEmpty, dashboard, subscribers>>

callVars == <<lastOp, result, emitted>>

runVars == <<recent, run, fromEmpty>>

\* query(): getActivities() with no limit, as a sequence.
Collection == getActivities(storage, Null).a

Init ==
  /\ storage = NoItem
  /\ now = 1
  /\ lastOp = [op |-> "none"]
  /\ result = [value |-> FALSE, threw |-> FALSE]
  /\ emitted = <<>>
  /\ recent = <<>>
  /\ run = 0
  /\ fromEmpty = TRUE
  /\ dashboard = NoDashboard
  /\ subscribers = NoSubscribers

\* The call op with the outcome out is the last call.
Called(op, out) ==
  /\ lastOp' = op
  /\ result' = [value |-> out.value, threw |-> out.threw]
  /\ emitted' = out.emitted

\* The MAX_ACTIVITIES latest appended records once rec has been appended.
Latest(rec, before) ==
  SubSeq(<<rec>> \o before, 1,
         IF Len(before) < MAX_ACTIVITIES THEN Len(before) + 1 ELSE MAX_ACTIVITIES)

(***************************************************************************)
(* The calls, with a writable slot, recording the call and its outcome.    *)
(***************************************************************************)
\* AgentLogger.log(agent, action, type, status, metadata)
Log ==
  /\ \E args \in LogArgs, r \in RandomHalves :
       LET out == log(storage, args[1], args[2], args[3], args[4], args[5], now, r, TRUE)
       IN  /\ storage' = out.storage
           /\ Called([op |-> "log", args |-> args], out)
  /\ UNCHANGED <<now, runVars, dashboard, subscribers>>

\* AgentLogger.importActivities(jsonData), of a given text or of the store's
\* own export.
Import ==
  /\ \E jsonData \in ImportTexts \cup {exportActivities(storage)} :
       LET out == importActivities(storage, jsonData, TRUE)
       IN  /\ storage' = out.storage
           /\ Called([op |-> "import", jsonData |-> jsonData], out)
  /\ UNCHANGED <<now, runVars, dashboard, subscribers>>

\* AgentLogger.clear()
Clear ==
  /\ LET out == clear(storage)
     IN  /\ storage' = out.storage
         /\ Called([op |-> "clear", after |-> lastOp.op], out)
  /\ UNCHANGED <<now, runVars, dashboard, subscribers>>

\* Time passes: Date.now() moves to the next instant.
Tick ==
  /\ now < Len(ISOStrings)
  /\ now' = now + 1
  /\ UNCHANGED <<storage, callVars, runVars, dashboard, subscribers>>

Next == Log \/ Import \/ Clear \/ Tick

Spec == Init /\ [][Next]_vars

(***************************************************************************)
(* The same calls, recording the run of appends instead.                   *)
(***************************************************************************)
LogRun ==
  /\ \E args \in LogArgs, r \in RandomHalves :
       LET out == log(storage, args[1], args[2], args[3], args[4], args[5], now, r, TRUE)
       IN  /\ storage' = out.storage
           /\ recent' = IF out.value
                          THEN Latest(ToJSON(activityOf(args[1], args[2], args[3], args[4],
                                                        args[5], now, r)),
                                      recent)
                          ELSE recent
           /\ run' = IF out.value /\ run <= MAX_ACTIVITIES THEN run + 1 ELSE run
  /\ UNCHANGED <<now, callVars, fromEmpty, dashboard, subscribers>>

ImportRun ==
  /\ \E jsonData \in ImportTexts \cup {exportActivities(storage)} :
       LET out == importActivities(storage, jsonData, TRUE)
       IN  /\ storage' = out.storage
           /\ recent' = IF out.value THEN <<>> ELSE recent
           /\ run' = IF out.value THEN 0 ELSE run
           /\ fromEmpty' = IF out.value
                             THEN getActivities(out.storage, Null) = Arr(<<>>)
                             ELSE fromEmpty
  /\ UNCHANGED <<now, callVars, dashboard, subscribers>>

ClearRun ==
  /\ storage' = clear(storage).storage
  /\ recent' = <<>>
  /\ run' = 0
  /\ fromEmpty' = TRUE
  /\ UNCHANGED <<now, callVars, dashboard, subscribers>>

NextRun == LogRun \/ ImportRun \/ ClearRun \/ Tick

SpecRun == Init /\ [][NextRun]_vars

(***************************************************************************)
(* The calls and the reads.  A call records whether its candidate or batch *)
(* was fit to be stored and whether setItem could write, a log also how    *)
(* many records the collection held; a read records its arguments and what *)
(* it returned.                                                            *)
(***************************************************************************)
\* The limit of a read: left out, 0, 1, or more than a full collection.
Limits == {Undef, Num(0, 0), Num(1, 0), Num(MAX_ACTIVITIES + 1, 0)}

FilterLimits == {Undef, Num(0, 0), Num(1, 0)}

QueryAgents == {Str("Claude"), Str("Copilot")}

QueryTypes == {Str("info"), Str("commit")}

\* The read op returned out (or threw); a read dispatches nothing.
Read(op, out) ==
  /\ lastOp' = op
  /\ result' = out
  /\ emitted' = <<>>
  /\ UNCHANGED <<storage, now, runVars, dashboard, subscribers>>

\* AgentLogger.log(...), with a slot that setItem can or cannot write.
LogCall ==
  /\ \E args \in LogArgs, r \in RandomHalves, writable \in BOOLEAN :
       LET out == log(storage, args[1], args[2], args[3], args[4], args[5], now, r, writable)
           activity == activityOf(args[1], args[2], args[3], args[4], args[5], now, r)
       IN  /\ storage' = out.storage
           /\ Called([op |-> "log", fit |-> validate(activity), writable |-> writable,
                      held |-> IF IsArray(getActivities(storage, Null))
                                 THEN Len(Collection) ELSE 0], out)
  /\ UNCHANGED <<now, runVars, dashboard, subscribers>>

\* AgentLogger.importActivities(jsonData), likewise.
ImportCall ==
  /\ \E jsonData \in ImportTexts \cup {exportActivities(storage)}, writable \in BOOLEAN :
       LET out == importActivities(storage, jsonData, writable)
           parsed == JSONparse(jsonData)
       IN  /\ storage' = out.storage
           /\ Called([op |-> "import", fit |-> parsed.ok /\ IsArray(parsed.v),
                      writable |-> writable], out)
  /\ UNCHANGED <<now, runVars, dashboard, subscribers>>

\* AgentLogger.clear()
ClearCall ==
  /\ LET out == clear(storage)
     IN  /\ storage' = out.storage
         /\ Called([op |-> "clear"], out)
  /\ UNCHANGED <<now, runVars, dashboard, subscribers>>

\* AgentLogger.getActivities(limit)
Query ==
  \E limit \in Limits :
    Read([op |-> "query", limit |-> limit],
         Returned(getActivities(storage, DefaultTo(limit, Null))))

\* AgentLogger.getActivitiesByAgent(agent, limit)
QueryByAgent ==
  \E agent \in QueryAgents, limit \in FilterLimits :
    Read([op |-> "queryByAgent", wanted |-> agent, limit |-> limit],
         getActivitiesByAgent(storage, agent, DefaultTo(limit, Null)))

\* AgentLogger.getActivitiesByType(type, limit)
QueryByType ==
  \E type \in QueryTypes, limit \in FilterLimits :
    Read([op |-> "queryByType", wanted |-> type, limit |-> limit],
         getActivitiesByType(storage, type, DefaultTo(limit, Null)))

\* AgentLogger.getStatistics()
Statistics ==
  LET stats == getStatistics(storage)
  IN  Read([op |-> "aggregate"],
           IF stats.threw THEN Threw ELSE Returned(stats))

\* AgentLogger.exportActivities()
Export == Read([op |-> "export"], Returned(exportActivities(storage)))

NextRead ==
  \/ LogCall \/ ImportCall \/ ClearCall \/ Tick
  \/ Query \/ QueryByAgent \/ QueryByType \/ Statistics \/ Export

SpecRead == Init /\ [][NextRead]_vars

\* What the slot may hold when the page is loaded: nothing, an array the
\* store wrote, text that does not parse, or JSON that is not an array of
\* records.
SlotContents ==
  {NoItem, MalformedText}
  \cup {JSONstringify(v, 0) : v \in NonArrayValues}
  \cup {JSONstringify(Arr(a), 0) : a \in {<<RecordA, RecordB>>, <<Null, RecordA>>,
                                            <<Num(1, 0), RecordB>>}}

InitSlot ==
  /\ storage \in SlotContents
  /\ now = 1
  /\ lastOp = [op |-> "none"]
  /\ result = [value |-> FALSE, threw |-> FALSE]
  /\ emitted = <<>>
  /\ recent = <<>>
  /\ run = 0
  /\ fromEmpty = TRUE
  /\ dashboard = NoDashboard
  /\ subscribers = NoSubscribers

SpecSlot == InitSlot /\ [][NextRead]_vars

(***************************************************************************)
(* The page: one Dashboard over the store.  Calls on the store dispatch    *)
(* their events to the listeners on window; the running intervals fire.    *)
(***************************************************************************)
\* What the page's scripts log and import.
PageLogArgs ==
  { <<Str("Claude"), Str("Fixed syntax error"), Str("commit"), Str("success"),
      Obj([commitHash |-> Str("abc123")])>>,
    <<Str("Claude"), Str(""), Undef, Undef, Undef>> }

PageImportTexts == {JSONstringify(Arr(<<RecordA>>), 2), MalformedText}

\* options.maxActivities: 0, 1, or the default.
MaxActivitiesOptions == {Num(0, 0), Num(1, 0), Num(maxActivities, 0)}

\* The dashboard as a step that renders nothing leaves it.
Idle(d) == [d EXCEPT !.ran = FALSE]

\* new Dashboard(containerId, options)
Construct ==
  /\ ~dashboard.constructed
  /\ \E container \in BOOLEAN, autoRefresh \in BOOLEAN, max \in MaxActivitiesOptions :
       dashboard' = init(container, autoRefresh, max, storage)
  /\ lastOp' = [op |-> "construct"]
  /\ result' = [value |-> TRUE, threw |-> FALSE]
  /\ emitted' = <<>>
  /\ UNCHANGED <<storage, now, runVars, subscribers>>

\* dashboard.destroy()
Destroy ==
  /\ dashboard.constructed
  /\ dashboard' = destroy(dashboard)
  /\ lastOp' = [op |-> "destroy"]
  /\ result' = [value |-> TRUE, threw |-> FALSE]
  /\ emitted' = <<>>
  /\ UNCHANGED <<storage, now, runVars, subscribers>>

\* An interval of setInterval fires.
TimerFires ==
  /\ \E id \in dashboard.intervals : dashboard' = renderActivities(dashboard, storage)
  /\ lastOp' = [op |-> "timer"]
  /\ result' = [value |-> TRUE, threw |-> FALSE]
  /\ emitted' = <<>>
  /\ UNCHANGED <<storage, now, runVars, subscribers>>

\* AgentLogger.log(...) on the page
LogPage ==
  /\ \E args \in PageLogArgs, r \in RandomHalves :
       LET out == log(storage, args[1], args[2], args[3], args[4], args[5], now, r, TRUE)
       IN  /\ storage' = out.storage
           /\ Called([op |-> "log"], out)
           /\ dashboard' = dispatchEvent(Idle(dashboard), out.emitted)
  /\ UNCHANGED <<now, runVars, subscribers>>

\* AgentLogger.importActivities(jsonData) on the page
ImportPage ==
  /\ \E jsonData \in PageImportTexts :
       LET out == importActivities(storage, jsonData, TRUE)
       IN  /\ storage' = out.storage
           /\ Called([op |-> "import"], out)
           /\ dashboard' = dispatchEvent(Idle(dashboard), out.emitted)
  /\ UNCHANGED <<now, runVars, subscribers>>

\* AgentLogger.clear() on the page
ClearPage ==
  /\ LET out == clear(storage)
     IN  /\ storage' = out.storage
         /\ Called([op |-> "clear"], out)
         /\ dashboard' = dispatchEvent(Idle(dashboard), out.emitted)
  /\ UNCHANGED <<now, runVars, subscribers>>

NextPage ==
  \/ Construct \/ Destroy \/ TimerFires
  \/ LogPage \/ ImportPage \/ ClearPage

SpecPage == Init /\ [][NextPage]_vars

(***************************************************************************)
(* The page with a user at the filters.                                    *)
(***************************************************************************)
\* The user picks another option in one of the selects: its 'change'
\* listener runs renderActivities.
ChangeFilter ==
  /\ dashboard.html
  /\ \E k \in FilterFields : \E value \in dashboard.choices[k] \cup {""} :
       /\ value # dashboard.filters[k]
       /\ dashboard' = renderActivities(
                          [Idle(dashboard) EXCEPT !.filters[k] = value], storage)
  /\ lastOp' = [op |-> "filter"]
  /\ result' = [value |-> TRUE, threw |-> FALSE]
  /\ emitted' = <<>>
  /\ UNCHANGED <<storage, now, runVars, subscribers>>

\* The user clicks 'Clear Filters': every select back to "", then
\* renderActivities.
ClearFilters ==
  /\ dashboard.html
  /\ dashboard' = renderActivities([Idle(dashboard) EXCEPT !.filters = NoFilters], storage)
  /\ lastOp' = [op |-> "clearFilters"]
  /\ result' = [value |-> TRUE, threw |-> FALSE]
  /\ emitted' = <<>>
  /\ UNCHANGED <<storage, now, runVars, subscribers>>

NextFilter ==
  \/ Construct \/ Destroy \/ TimerFires
  \/ LogPage \/ ImportPage \/ ClearPage
  \/ ChangeFilter \/ ClearFilters

SpecFilter == Init /\ [][NextFilter]_vars

(***************************************************************************)
(* The page with a script that calls the dashboard's timer methods.        *)
(***************************************************************************)
\* How many intervals the page lets run at once.
MaxIntervals == 2

\* dashboard.startAutoRefresh()
StartAutoRefresh ==
  /\ dashboard.constructed
  /\ Cardinality(dashboard.intervals) < MaxIntervals
  /\ dashboard' = startAutoRefresh(Idle(dashboard))
  /\ lastOp' = [op |-> "startAutoRefresh"]
  /\ result' = [value |-> TRUE, threw |-> FALSE]
  /\ emitted' = <<>>
  /\ UNCHANGED <<storage, now, runVars, subscribers>>

\* dashboard.stopAutoRefresh()
StopAutoRefresh ==
  /\ dashboard.constructed
  /\ dashboard' = stopAutoRefresh(Idle(dashboard))
  /\ lastOp' = [op |-> "stopAutoRefresh"]
  /\ result' = [value |-> TRUE, threw |-> FALSE]
  /\ emitted' = <<>>
  /\ UNCHANGED <<storage, now, runVars, subscribers>>

NextTimer ==
  \/ Construct \/ Destroy \/ TimerFires
  \/ LogPage \/ ImportPage \/ ClearPage
  \/ StartAutoRefresh \/ StopAutoRefresh

SpecTimer == Init /\ [][NextTimer]_vars

(***************************************************************************)
(* The page with scripts that listen to the store's events.                *)
(***************************************************************************)
\* How many listeners the scripts register.
MaxSubscribers == 2

EventTypes == {"codedao:activity", "codedao:cleared", "codedao:imported"}

\* window.addEventListener('codedao:...', listener)
Subscribe ==
  /\ Len(subscribers.registered) < MaxSubscribers
  /\ \E type \in EventTypes, throws \in BOOLEAN :
       subscribers' = [registered |-> addEventListener(subscribers.registered, type, throws),
                       invoked |-> <<>>, reported |-> <<>>]
  /\ lastOp' = [op |-> "subscribe"]
  /\ result' = [value |-> TRUE, threw |-> FALSE]
  /\ emitted' = <<>>
  /\ UNCHANGED <<storage, now, runVars, dashboard>>

\* The call with the outcome out has run the listeners of its events.
Notified(op, out) ==
  LET delivery == invokeListeners(subscribers.registered, out.emitted)
  IN  /\ storage' = out.storage
      /\ Called([op |-> op], caught(out, delivery))
      /\ subscribers' = [subscribers EXCEPT !.invoked = delivery.invoked,
                                            !.reported = delivery.reported]

\* AgentLogger.log(...) with listeners on window
LogNotify ==
  /\ \E args \in PageLogArgs, r \in RandomHalves :
       Notified("log", log(storage, args[1], args[2], args[3], args[4], args[5], now, r, TRUE))
  /\ UNCHANGED <<now, runVars, dashboard>>

\* AgentLogger.importActivities(jsonData) with listeners on window
ImportNotify ==
  /\ \E jsonData \in PageImportTexts :
       Notified("import", importActivities(storage, jsonData, TRUE))
  /\ UNCHANGED <<now, runVars, dashboard>>

\* AgentLogger.clear() with listeners on window
ClearNotify ==
  /\ Notified("clear", clear(storage))
  /\ UNCHANGED <<now, runVars, dashboard>>

NextSubscribers == Subscribe \/ LogNotify \/ ImportNotify \/ ClearNotify

SpecSubscribers == Init /\ [][NextSubscribers]_vars

(***************************************************************************)
(* Properties.                                                             *)
(***************************************************************************)
\* The batch of the last call, when that call was an import of an array.
LastBatch == JSONparse(lastOp.jsonData).v.a

ImportedArray ==
  /\ lastOp.op = "import"
  /\ JSONparse(lastOp.jsonData).ok
  /\ IsArray(JSONparse(lastOp.jsonData).v)

ReturnedTrue == result = [value |-> TRUE, threw |-> FALSE]

ReturnedFalse == result = [value |-> FALSE, threw |-> FALSE]

\* A record has the six required fields, a non-empty agent and action, a
\* type and a status of the enumerations, and no key besides the seven.
Conforms(rec) ==
  /\ rec.t = "object"
  /\ \A k \in {"id", "timestamp", "agent", "action", "type", "status"} : k \in DOMAIN rec.o
  /\ rec.o["agent"].t = "string" /\ rec.o["agent"].s # ""
  /\ rec.o["action"].t = "string" /\ rec.o["action"].s # ""
  /\ rec.o["type"].t = "string" /\ rec.o["type"].s \in typeEnum
  /\ rec.o["status"].t = "string" /\ rec.o["status"].s \in statusEnum
  /\ DOMAIN rec.o \subseteq {"id", "timestamp", "agent", "action", "type", "status", "metadata"}

\* C1: whatever appends, imports and clears have been made from the empty
\* store, the collection holds at most MAX_ACTIVITIES records.
C1_CapacityInvariant == Len(Collection) <= MAX_ACTIVITIES

\* C2: whatever appends, imports and clears have been made from the empty
\* store, every record of the collection conforms to the schema: no candidate
\* that fails validation is persisted, by an append or out of a batch.
C2_SchemaInvariant == \A i \in 1..Len(Collection) : Conforms(Collection[i])

\* An import whose batch held records that do not conform left a collection
\* that is not empty.
C2_Witness ==
  /\ ImportedArray
  /\ ReturnedTrue
  /\ Len(Collection) > 0
  /\ \E i \in 1..Len(LastBatch) : ~Conforms(LastBatch[i])

\* C3: after more than MAX_ACTIVITIES successful appends in a row on an empty
\* store, the collection is exactly the MAX_ACTIVITIES latest appended
\* records, newest first: the last appended is at position 1 and the first
\* appended is gone.
C3_EvictionKeepsNewest ==
  (fromEmpty /\ run > MAX_ACTIVITIES) =>
     /\ Len(Collection) = MAX_ACTIVITIES
     /\ \A k \in 1..MAX_ACTIVITIES : Collection[k] = recent[k]

\* More appends than the capacity were made on an empty store, of records
\* that differ.
C3_Witness ==
  /\ fromEmpty
  /\ run > MAX_ACTIVITIES
  /\ Len(Collection) = MAX_ACTIVITIES
  /\ Collection[1] # Collection[MAX_ACTIVITIES]

\* C4: of two records appended one after the other with no clear or import
\* in between, both still held, the later one stands before the earlier one
\* in the collection.  (recent[i] was appended after recent[j] when i < j.)
C4_Ordering ==
  \A i, j \in 1..Len(recent) :
     (i < j /\ j <= Len(Collection)) =>
        (Collection[i] = recent[i] /\ Collection[j] = recent[j])

\* Two different records were appended on top of an imported collection.
C4_Witness ==
  /\ ~fromEmpty
  /\ Len(recent) >= 2
  /\ recent[1] # recent[2]
  /\ Len(Collection) >= 2

\* C5: a successful append dispatches exactly one 'codedao:activity' event;
\* its detail is the new record; it is dispatched once the slot holds the
\* updated collection, so that a listener that queries the store finds the
\* new record at position 1.
C5_AppendNotification ==
  (lastOp.op = "log" /\ result.value) =>
     /\ Len(emitted) = 1
     /\ emitted[1].type = "codedao:activity"
     /\ emitted[1].detail.o["agent"] = lastOp.args[1]
     /\ emitted[1].detail.o["action"] = lastOp.args[2]
     /\ emitted[1].snapshot = storage
     /\ getActivities(emitted[1].snapshot, Null).a[1] = ToJSON(emitted[1].detail)

\* An append succeeded on a store that already held a record.
C5_Witness ==
  /\ lastOp.op = "log"
  /\ ReturnedTrue
  /\ Len(Collection) >= 2

\* C6: an append whose candidate fails validation returns false without
\* throwing, leaves the slot as it was and dispatches no event.  (Whether a
\* candidate is valid depends on the arguments alone, not on the instant or
\* on the random draw of its id.)
C6_RejectedAppend ==
  [][ ( /\ lastOp'.op = "log"
        /\ ~validate(activityOf(lastOp'.args[1], lastOp'.args[2], lastOp'.args[3],
                                lastOp'.args[4], lastOp'.args[5], 1, 0)) )
      => ( /\ result' = [value |-> FALSE, threw |-> FALSE]
           /\ storage' = storage
           /\ emitted' = <<>> ) ]_vars

\* An append with a type outside the enumeration was made on a store that
\* held records.
C6_Witness ==
  /\ lastOp.op = "log"
  /\ lastOp.args[3] = Str("not-a-real-type")
  /\ ReturnedFalse
  /\ Len(Collection) > 0

\* C7: the import of a well-formed array returns true and leaves exactly the
\* valid elements of the batch, in the order of the batch, in place of what
\* was held; one 'codedao:imported' event is dispatched after the write.
C7_ImportReplaces ==
  ImportedArray =>
     /\ ReturnedTrue
     /\ Collection = SelectSeq(LastBatch, validate)
     /\ emitted = <<Event("codedao:imported", Null, storage)>>

\* A batch of valid and invalid elements was imported.
C7_Witness ==
  /\ ImportedArray
  /\ Len(Collection) > 0
  /\ Len(Collection) < Len(LastBatch)

\* C8: when every record held is valid, importing the store's own export
\* returns true and leaves the same records in the same order.
C8_RoundTrip ==
  [][ ( /\ lastOp'.op = "import"
        /\ lastOp'.jsonData = exportActivities(storage)
        /\ \A i \in 1..Len(Collection) : validate(Collection[i]) )
      => ( /\ result' = [value |-> TRUE, threw |-> FALSE]
           /\ Collection' = Collection ) ]_vars

\* The store's own export, holding an appended record, was imported.
C8_Witness ==
  /\ lastOp.op = "import"
  /\ lastOp.jsonData = exportActivities(storage)
  /\ Len(Collection) >= 2
  /\ Collection[1].o["agent"] = Str("Claude")

\* C9: the import of a text that is not well-formed JSON, or of well-formed
\* JSON that is not a bare array, returns false without throwing, leaves the
\* slot as it was and dispatches no event.
C9_FailedImport ==
  [][ ( /\ lastOp'.op = "import"
        /\ ~(JSONparse(lastOp'.jsonData).ok /\ IsArray(JSONparse(lastOp'.jsonData).v)) )
      => ( /\ result' = [value |-> FALSE, threw |-> FALSE]
           /\ storage' = storage
           /\ emitted' = <<>> ) ]_vars

\* An array wrapped in an envelope was imported into a store that held records.
C9_Witness ==
  /\ lastOp.op = "import"
  /\ lastOp.jsonData = JSONstringify(Obj([activities |-> Arr(<<RecordA>>)]), 2)
  /\ ReturnedFalse
  /\ Len(Collection) > 0

\* C10: clear returns true and leaves the collection empty, the total of the
\* statistics 0, whatever was held, a cleared store included; each call
\* dispatches one 'codedao:cleared' event without a payload, once the slot
\* has been emptied.
C10_IdempotentClear ==
  lastOp.op = "clear" =>
     /\ ReturnedTrue
     /\ Collection = <<>>
     /\ ~getStatistics(storage).threw
     /\ getStatistics(storage).total = 0
     /\ Len(emitted) = 1
     /\ emitted[1].type = "codedao:cleared"
     /\ emitted[1].detail = Null
     /\ getActivities(emitted[1].snapshot, Null) = Arr(<<>>)

\* A store was cleared twice in a row.
C10_Witness ==
  /\ lastOp.op = "clear"
  /\ lastOp.after = "clear"


\* The smaller of two numbers.
Min(a, b) == IF a < b THEN a ELSE b

ReadOps == {"query", "queryByAgent", "queryByType", "aggregate", "export"}

\* C11: for every limit >= 0, 0 included, query(limit) returns the first
\* min(limit, size) records of query(), in query()'s order, and all of them
\* when the limit is left out; it dispatches nothing.
C11_LimitSemantics ==
  lastOp.op = "query" =>
    /\ result = Returned(Arr(IF lastOp.limit = Undef
                               THEN Collection
                               ELSE SubSeq(Collection, 1, Min(lastOp.limit.i, Len(Collection)))))
    /\ emitted = <<>>

\* The same for the limits of 1 and more only.
C11_PositiveLimits == (lastOp.op = "query" /\ lastOp.limit # Num(0, 0)) => C11_LimitSemantics

\* query(0) of a collection that holds records returned them all.
C11_ZeroReturnsAll ==
  /\ lastOp.op = "query"
  /\ lastOp.limit = Num(0, 0)
  /\ Collection # <<>>
  /\ result = Returned(Arr(Collection))

\* The sum of the counts f[k] for the keys k of S.
RECURSIVE SumOver(_, _)
SumOver(f, S) ==
  IF S = {} THEN 0
  ELSE LET k == CHOOSE x \in S : TRUE IN f[k] + SumOver(f, S \ {k})

\* counts holds, for each value the field k takes in the collection and for
\* no other, the number of records that have it; the counts sum to the length.
CountsRecords(counts, k) ==
  /\ DOMAIN counts = {Collection[i].o[k].s : i \in 1..Len(Collection)}
  /\ \A key \in DOMAIN counts :
       counts[key] = Cardinality({i \in 1..Len(Collection) : Collection[i].o[k].s = key})
  /\ SumOver(counts, DOMAIN counts) = Len(Collection)

FilteredField == IF lastOp.op = "queryByAgent" THEN "agent" ELSE "type"

\* The records of query() whose field equals the wanted value, in order.
Matching ==
  LET Wanted(a) == a.o[FilteredField] = lastOp.wanted
  IN  SelectSeq(Collection, Wanted)

\* C13: queryByAgent(a, limit) and queryByType(t, limit) return the records
\* of query() whose agent (type) equals the argument exactly, in query()'s
\* order, cut to the first limit of them when a limit is given: the filter
\* comes before the cut.
C13_FilteredQueries ==
  lastOp.op \in {"queryByAgent", "queryByType"} =>
    result = Returned(Arr(IF lastOp.limit = Undef
                            THEN Matching
                            ELSE SubSeq(Matching, 1, Min(lastOp.limit.i, Len(Matching)))))

\* The same for the limits of 1 and more only.
C13_PositiveLimits ==
  (lastOp.op \in {"queryByAgent", "queryByType"} /\ lastOp.limit # Num(0, 0))
    => C13_FilteredQueries

\* A filtered query with the limit 1 returned a record that is not the
\* first of query(): the filter came before the cut.
C13_FilterBeforeCut ==
  /\ lastOp.op \in {"queryByAgent", "queryByType"}
  /\ lastOp.limit = Num(1, 0)
  /\ Len(Matching) >= 1
  /\ result = Returned(Arr(<<Matching[1]>>))
  /\ Matching[1] # Collection[1]

\* A filtered query with the limit 0 returned every matching record.
C13_ZeroReturnsAll ==
  /\ lastOp.op \in {"queryByAgent", "queryByType"}
  /\ lastOp.limit = Num(0, 0)
  /\ Matching # <<>>
  /\ result = Returned(Arr(Matching))

\* The last call was a log that returned true, and the record at position 0
\* has the seven fields, with the agent, action, type and status of the
\* call, 'info' and 'success' where the call left them out, and an id and a
\* timestamp of the store's.
AppendedFields ==
  LET rec == Collection[1]
      args == lastOp.args
  IN  /\ DOMAIN rec.o = {"id", "timestamp", "agent", "action", "type", "status", "metadata"}
      /\ rec.o["agent"] = args[1]
      /\ rec.o["action"] = args[2]
      /\ rec.o["type"] = (IF args[3] = Undef THEN Str("info") ELSE args[3])
      /\ rec.o["status"] = (IF args[4] = Undef THEN Str("success") ELSE args[4])
      /\ IsNumber(rec.o["id"])
      /\ IsString(rec.o["timestamp"])

\* C14 as stated: after a successful append, the record at position 0 of
\* query() has exactly the agent, action, type, status and metadata of the
\* call, the defaults 'info', 'success' and the empty mapping where they were
\* left out, and an id and a timestamp of the store's.
C14_AppendedContentExact ==
  (lastOp.op = "log" /\ ReturnedTrue) =>
    /\ AppendedFields
    /\ Collection[1].o["metadata"] =
         (IF lastOp.args[5] = Undef THEN EmptyObject ELSE lastOp.args[5])

\* C14, amended: the same, the metadata being what JSON keeps of the
\* metadata of the call (a property whose value is undefined is not stored).
C14_AppendedContent ==
  (lastOp.op = "log" /\ ReturnedTrue) =>
    /\ AppendedFields
    /\ Collection[1].o["metadata"] =
         ToJSON(IF lastOp.args[5] = Undef THEN EmptyObject ELSE lastOp.args[5])

\* A successful append that left type, status and metadata out.
C14_Witness ==
  /\ lastOp.op = "log"
  /\ ReturnedTrue
  /\ lastOp.args[3] = Undef /\ lastOp.args[4] = Undef /\ lastOp.args[5] = Undef
  /\ Collection[1].o["type"] = Str("info")
  /\ Collection[1].o["metadata"] = EmptyObject

\* A successful append whose metadata had a property of value undefined:
\* the stored metadata has no such property.
C14_UndefinedDropped ==
  /\ lastOp.op = "log"
  /\ ReturnedTrue
  /\ lastOp.args[5] # Undef
  /\ "note" \in DOMAIN lastOp.args[5].o
  /\ "note" \notin DOMAIN Collection[1].o["metadata"].o

\* The keys the schema names.
TopLevelKeys == {"id", "timestamp", "agent", "action", "type", "status", "metadata"}

MetadataKeys ==
  {"commitHash", "filePath", "lineNumbers", "duration", "confidence", "tags",
   "relatedActivities", "repository", "branch", "pullRequest", "issue",
   "errorMessage", "url"}

\* The six required fields of e are present and valid.
RequiredFieldsValid(e) ==
  /\ IsObject(e)
  /\ \A k \in TopLevelKeys \ {"metadata"} : k \in DOMAIN e.o
  /\ IsNumber(e.o["id"]) \/ IsString(e.o["id"])
  /\ IsString(e.o["timestamp"]) /\ e.o["timestamp"].s \in DateTimeStrings
  /\ IsString(e.o["agent"]) /\ e.o["agent"].s # ""
  /\ IsString(e.o["action"]) /\ e.o["action"].s # ""
  /\ IsString(e.o["type"]) /\ e.o["type"].s \in typeEnum
  /\ IsString(e.o["status"]) /\ e.o["status"].s \in statusEnum

\* e has an unrecognised key at the top level.
UnknownTopLevelKey(e) == ~(DOMAIN e.o \subseteq TopLevelKeys)

\* e has a metadata object with an unrecognised key, and is valid once the
\* unrecognised keys of the metadata are taken away.
UnknownMetadataKey(e) ==
  /\ RequiredFieldsValid(e)
  /\ DOMAIN e.o = TopLevelKeys
  /\ IsObject(e.o["metadata"])
  /\ ~(DOMAIN e.o["metadata"].o \subseteq MetadataKeys)
  /\ validate(Obj([e.o EXCEPT !["metadata"] =
        Obj([k \in DOMAIN e.o["metadata"].o \cap MetadataKeys |-> e.o["metadata"].o[k]])]))

\* The records of the collection, as a set.
Stored == {Collection[i] : i \in 1..Len(Collection)}

\* C15: of an imported batch, an element whose required fields are all valid
\* and that has an unknown top-level key is dropped; an element that is valid
\* but for an unrecognised key inside its metadata is stored, that key and
\* its value included.
C15_KeyPolicy ==
  (ImportedArray /\ ReturnedTrue) =>
    \A i \in 1..Len(LastBatch) :
      LET e == LastBatch[i]
      IN  /\ (RequiredFieldsValid(e) /\ UnknownTopLevelKey(e)) => e \notin Stored
          /\ (RequiredFieldsValid(e) /\ UnknownMetadataKey(e)) => e \in Stored

\* An import of a batch with an element of each kind: the one with the key
\* extra is not stored, the one with metadata.custom is, with custom = "x".
C15_Witness ==
  /\ ImportedArray
  /\ ReturnedTrue
  /\ \E i, j \in 1..Len(LastBatch) :
       /\ RequiredFieldsValid(LastBatch[i]) /\ UnknownTopLevelKey(LastBatch[i])
       /\ RequiredFieldsValid(LastBatch[j]) /\ UnknownMetadataKey(LastBatch[j])
  /\ \E k \in 1..Len(Collection) :
       /\ "metadata" \in DOMAIN Collection[k].o
       /\ "custom" \in DOMAIN Collection[k].o["metadata"].o
       /\ Collection[k].o["metadata"].o["custom"] = Str("x")

\* The step is a call of log or of importActivities, with a candidate or a
\* batch fit to be stored, during which setItem throws.
WriteFails ==
  /\ lastOp'.op \in {"log", "import"}
  /\ now' = now
  /\ lastOp'.fit
  /\ ~lastOp'.writable

\* C16: when setItem throws during the append of a valid record or during an
\* import, the call returns false and throws nothing, the slot keeps the
\* content it had, and no event is dispatched.
C16_WriteFailureContained ==
  [][WriteFails =>
       /\ result' = [value |-> FALSE, threw |-> FALSE]
       /\ storage' = storage
       /\ emitted' = <<>>]_vars

\* The append of a valid record to a collection that holds records failed
\* on setItem.
C16_Witness ==
  /\ lastOp.op = "log"
  /\ lastOp.fit
  /\ ~lastOp.writable
  /\ ReturnedFalse
  /\ emitted = <<>>
  /\ Collection # <<>>

\* The slot holds the text of a JSON array.
HoldsArray ==
  /\ storage # NoItem
  /\ JSONparse(storage).ok
  /\ IsArray(JSONparse(storage).v)

\* C17: whatever the slot holds (nothing, an array, text that does not
\* parse, JSON that is not an array), every read returns without throwing;
\* and when the slot holds no readable array, query() returns the empty
\* sequence and aggregate() a total of 0.
C17_ReadsNeverThrow ==
  /\ lastOp.op \in ReadOps => ~result.threw
  /\ (lastOp.op = "query" /\ lastOp.limit = Undef /\ ~HoldsArray)
       => result = Returned(Arr(<<>>))
  /\ (lastOp.op = "aggregate" /\ ~HoldsArray)
       => (~result.threw /\ result.value.total = 0)

\* The part of C17 the code keeps: query and export never throw, and query()
\* of an unset slot or of text that does not parse is the empty sequence.
C17_QueryNeverThrows ==
  /\ lastOp.op \in {"query", "export"} => ~result.threw
  /\ (lastOp.op = "query" /\ lastOp.limit = Undef
        /\ (storage = NoItem \/ ~JSONparse(storage).ok))
       => result = Returned(Arr(<<>>))

\* aggregate() threw on a slot that holds JSON that is not an array.
C17_AggregateThrew ==
  /\ lastOp.op = "aggregate"
  /\ storage # NoItem /\ JSONparse(storage).ok /\ ~IsArray(JSONparse(storage).v)
  /\ result.threw

\* query() returned what is not a sequence.
C17_QueryNotASequence ==
  /\ lastOp.op = "query"
  /\ ~result.threw
  /\ ~IsArray(result.value)

\* A filtered query threw on an array with a null element.
C17_FilterThrewOnNull ==
  /\ lastOp.op \in {"queryByAgent", "queryByType"}
  /\ HoldsArray
  /\ result.threw

\* The collection after the step is the collection before it with one
\* record put in front, cut at the tail to MAX_ACTIVITIES records.
InsertedAtFront ==
  /\ Len(Collection') = (IF Len(Collection) >= MAX_ACTIVITIES
                           THEN MAX_ACTIVITIES
                           ELSE Len(Collection) + 1)
  /\ \A i \in 2..Len(Collection') : Collection'[i] = Collection[i - 1]

\* C20: a successful append only puts the new record at position 0 and,
\* when the collection held MAX_ACTIVITIES records or more, drops records
\* from the tail: the records kept are unchanged and in their order.  A
\* failed append and every read leave the slot as it was.
C20_AppendFrame ==
  [][/\ (lastOp'.op = "log" /\ now' = now) =>
          (IF result'.value = TRUE THEN InsertedAtFront ELSE storage' = storage)
     /\ lastOp'.op \in ReadOps => storage' = storage]_vars

\* A successful append to a collection that held MAX_ACTIVITIES records or
\* more: the collection holds MAX_ACTIVITIES records.
C20_Witness ==
  /\ lastOp.op = "log"
  /\ ReturnedTrue
  /\ lastOp.held >= MAX_ACTIVITIES
  /\ Len(Collection) = MAX_ACTIVITIES

\* A dashboard with an existing container is on the page.
Mounted == dashboard.constructed /\ dashboard.container /\ ~dashboard.destroyed

\* C18: a dashboard with an existing container re-renders on each of
\* appended, cleared and imported: after a successful append, clear or
\* import, what it shows is the state of the store, with no timer tick.
C18_PresentationFollows ==
  (Mounted /\ lastOp.op \in {"log", "import", "clear"} /\ ReturnedTrue)
    => dashboard.shown = Rendering(dashboard, storage)

\* The same for append and clear only.
C18_AppendAndClear ==
  (Mounted /\ lastOp.op \in {"log", "clear"} /\ ReturnedTrue)
    => dashboard.shown = Rendering(dashboard, storage)

\* After a successful import the dashboard has not rendered, and shows a
\* list that is not the store's.
C18_StaleAfterImport ==
  /\ Mounted
  /\ lastOp.op = "import"
  /\ ReturnedTrue
  /\ ~dashboard.ran
  /\ dashboard.shown.list # getFilteredActivities(dashboard, storage)

\* C19: after destroy() the refreshTimer is null and the dashboard has no
\* listener left for 'codedao:activity' or 'codedao:cleared', so that no
\* later append, clear or timer tick runs its renderActivities.
C19_DestroyDetaches ==
  dashboard.destroyed =>
    /\ dashboard.refreshTimer = Null
    /\ \A l \in dashboard.listeners : l[1] \notin StoreEvents
    /\ lastOp.op \in {"log", "clear", "timer"} => ~dashboard.ran

\* The part of C19 the code keeps: after destroy() the refreshTimer is null
\* and no interval of the dashboard is running.
C19_TimerStopped ==
  dashboard.destroyed => (dashboard.refreshTimer = Null /\ dashboard.intervals = {})

\* A destroyed dashboard ran renderActivities on an append.
C19_RendersAfterDestroy ==
  /\ dashboard.destroyed
  /\ lastOp.op = "log"
  /\ ReturnedTrue
  /\ dashboard.ran

\* C23: whatever number of records the collection held before the call,
\* more than MAX_ACTIVITIES (left by an import) included, after a successful
\* append it holds at most MAX_ACTIVITIES records and the new record is at
\* position 0.
C23_AppendRestoresBound ==
  (lastOp.op = "log" /\ ReturnedTrue) =>
    /\ Len(Collection) <= MAX_ACTIVITIES
    /\ Len(Collection) >= 1
    /\ Len(emitted) = 1
    /\ Collection[1] = ToJSON(emitted[1].detail)

\* A successful append to a collection that held more than MAX_ACTIVITIES
\* records.
C23_Witness ==
  /\ lastOp.op = "log"
  /\ ReturnedTrue
  /\ lastOp.held > MAX_ACTIVITIES
  /\ Len(Collection) = MAX_ACTIVITIES
  /\ Collection[1] = ToJSON(emitted[1].detail)

\* The first maxActivities records of query().
FirstShown ==
  SubSeq(Collection, 1, Min(dashboard.maxActivities.i, Len(Collection)))

\* Those of them that match every filter that is not empty, in order.
MatchingFilters ==
  LET Kept(a) ==
        \A k \in FilterFields :
          dashboard.filters[k] # "" => a.o[k] = Str(dashboard.filters[k])
  IN  SelectSeq(FirstShown, Kept)

\* getFilteredActivities returns the records among the first maxActivities
\* of query() that match every non-empty filter.
FiltersFirstShown ==
  getFilteredActivities(dashboard, storage) = Arr(MatchingFilters)

\* The step is a render or a change of the filters.
Presenting == lastOp'.op \in {"construct", "timer", "filter", "clearFilters"}

\* C21: getFilteredActivities returns the records among the first
\* maxActivities records of query() that match every non-empty filter
\* (agent, type, status) exactly, in the store's order, and those first
\* maxActivities records when every filter is empty; rendering and changing
\* the filters leave the slot as it was and dispatch no store event.
C21_PresentationFiltering ==
  [][/\ Mounted' => FiltersFirstShown'
     /\ Presenting => (storage' = storage /\ emitted' = <<>>)]_vars

\* The same for a maxActivities of 1 and more only.
C21_PositiveMaxActivities ==
  [][/\ (Mounted' /\ dashboard'.maxActivities # Num(0, 0)) => FiltersFirstShown'
     /\ Presenting => (storage' = storage /\ emitted' = <<>>)]_vars

\* A dashboard with maxActivities: 0 over a collection that holds records:
\* getFilteredActivities returns them all.
C21_ZeroShowsAll ==
  /\ Mounted
  /\ dashboard.maxActivities = Num(0, 0)
  /\ dashboard.filters = NoFilters
  /\ Collection # <<>>
  /\ getFilteredActivities(dashboard, storage) = Arr(Collection)

\* With maxActivities: 1 and a filter that only the second record matches,
\* the dashboard shows the empty list: the cut comes before the filters.
C21_CutBeforeFilters ==
  /\ Mounted
  /\ lastOp.op = "filter"
  /\ dashboard.maxActivities = Num(1, 0)
  /\ dashboard.filters["agent"] # ""
  /\ Len(Collection) >= 2
  /\ Collection[2].o["agent"] = Str(dashboard.filters["agent"])
  /\ dashboard.shown.list = Arr(<<>>)

\* The listeners registered for the event the last call dispatched, in the
\* order of their registration.
Subscribed ==
  LET OfType(l) == l.type = emitted[1].type
  IN  SelectSeq(subscribers.registered, OfType)

\* C22: the subscribers of a store notification are invoked in the order of
\* their registration; one that throws stops neither the delivery to those
\* registered after it, nor the append, clear or import from returning true,
\* and the slot keeps what the call wrote.
C22_SubscriberIsolation ==
  (lastOp.op \in {"log", "import", "clear"} /\ Len(emitted) = 1) =>
    /\ subscribers.invoked = Ids(Subscribed)
    /\ ReturnedTrue
    /\ storage = emitted[1].snapshot

\* Two subscribers of the event of the last call, the first of which threw:
\* both were invoked, in order.
C22_Witness ==
  /\ lastOp.op \in {"log", "import", "clear"}
  /\ Len(emitted) = 1
  /\ Len(Subscribed) = 2
  /\ Subscribed[1].throws
  /\ subscribers.invoked = <<Subscribed[1].id, Subscribed[2].id>>
  /\ subscribers.reported = <<Subscribed[1].id>>
  /\ ReturnedTrue

\* The dashboard has at most one interval running.
SingleTimer == Cardinality(dashboard.intervals) <= 1

\* Construction starts the timer exactly when the container exists and
\* autoRefresh is true; without a container it registers no listener,
\* starts no timer and renders nothing.
ConstructionStartsTimer ==
  lastOp.op = "construct" =>
    /\ Truthy(dashboard.refreshTimer) <=> (dashboard.container /\ dashboard.autoRefresh)
    /\ ~dashboard.container =>
         /\ dashboard.listeners = {}
         /\ dashboard.intervals = {}
         /\ ~dashboard.ran
         /\ dashboard.shown = Blank

\* stopAutoRefresh leaves refreshTimer null, and a second stopAutoRefresh
\* changes nothing.
StopIsIdempotent ==
  lastOp.op = "stopAutoRefresh" =>
    /\ dashboard.refreshTimer = Null
    /\ stopAutoRefresh(dashboard) = dashboard

\* A tick of a timer runs renderActivities and leaves the store alone.
TickOnlyRenders ==
  lastOp'.op = "timer" => (dashboard'.ran /\ storage' = storage /\ emitted' = <<>>)

\* C24: a Dashboard has at most one refresh timer running at any time; the
\* timer is started only when the container exists and autoRefresh is true;
\* without a container, construction registers no listener, starts no timer
\* and renders nothing; stopAutoRefresh is idempotent and leaves
\* refreshTimer null; a timer tick only re-renders and never changes the
\* store.
C24_TimerLifecycle ==
  [][/\ SingleTimer'
     /\ ConstructionStartsTimer'
     /\ StopIsIdempotent'
     /\ TickOnlyRenders]_vars

\* C24 without its first part.
C24_ButSingleTimer ==
  [][/\ ConstructionStartsTimer'
     /\ StopIsIdempotent'
     /\ TickOnlyRenders]_vars

\* startAutoRefresh on a dashboard whose timer was running: two intervals
\* run, and refreshTimer knows the second only.
C24_TwoIntervals ==
  /\ lastOp.op = "startAutoRefresh"
  /\ Cardinality(dashboard.intervals) = 2
  /\ dashboard.refreshTimer = Num(2, 0)

\* A tick reached a destroyed dashboard: destroy stopped the interval it
\* knew, the other one still runs.
C24_TickAfterDestroy ==
  /\ dashboard.destroyed
  /\ dashboard.refreshTimer = Null
  /\ lastOp.op = "timer"
  /\ dashboard.ran
====
